---- MODULE Spec2Model ----
(***************************************************************************)
(* The video pipeline of app/: the job table (models.py), the Drive        *)
(* watcher (services/drive_watcher.py), the orchestrator (pipeline.py) and *)
(* the HTTP entry points (api/routes.py), as a state machine.              *)
(*                                                                         *)
(* A thread runs the APScheduler job (main.py, max_instances=1) or a       *)
(* FastAPI background task (trigger_scan, retry_job).  Every action is one *)
(* store write of the code together with the external call that precedes   *)
(* it; the external call touches no state another thread reads before that *)
(* write, so the write is the step's linearisation point.                  *)
(***************************************************************************)
EXTENDS Integers, Sequences, FiniteSets, TLC

\* --------------------------------------------------------------- constants
None == "None"       \* Python's None

\* The Drive folder's possible content: file id -> name.
FileIds == {"d1", "d2", "d3"}
file_name == [d \in FileIds |->
                 CASE d = "d1" -> "a.mp4" [] d = "d2" -> "a.mov" [] d = "d3" -> "n.txt"]
\* files().list(orderBy="createdTime desc"): the order the folder is listed in
DriveOrder == <<"d3", "d2", "d1">>

\* Path(name).suffix.lower() and Path(name).stem
suffix(name) == CASE name = "a.mp4" -> ".mp4" [] name = "a.mov" -> ".mov" [] name = "n.txt" -> ".txt"
stem(name) == CASE name = "a.mp4" -> "a" [] name = "a.mov" -> "a" [] name = "n.txt" -> "n"

\* process_job: settings.captions_dir / f"{stem}.srt" and
\* settings.output_dir / f"{stem}_edited.mp4"; _compress_video: the same with
\* ".mp4" replaced by "_compressed.mp4"
srt_path_of(name) == CASE stem(name) = "a" -> "a.srt" [] stem(name) = "n" -> "n.srt"
output_path_of(name) ==
    CASE stem(name) = "a" -> "a_edited.mp4" [] stem(name) = "n" -> "n_edited.mp4"
compressed_path_of(name) ==
    CASE stem(name) = "a" -> "a_edited_compressed.mp4"
      [] stem(name) = "n" -> "n_edited_compressed.mp4"

SUPPORTED_EXTENSIONS == {".mp4", ".mov", ".avi", ".mkv", ".webm"}

\* The threads that run operations: APScheduler's executor runs run_pipeline, the
\* server's thread pool runs the background tasks of POST /trigger and
\* POST /jobs/{id}/retry.
Procs == {"t1", "t2"}
ScanOps == {"tick", "trigger"}

Statuses == {"pending", "downloading", "downloaded", "analyzing", "editing",
             "posting", "done", "failed"}

\* str(e) of the exceptions the steps raise.  An adapter's exception carries
\* whatever text the library gave it, possibly none.
NameErrorMsg == "name 'json' is not defined"
IntegrityMsg == "UNIQUE constraint failed: videojob.drive_file_id"
AdapterMsg(site, empty) == IF empty THEN "" ELSE site

NoExc == [site |-> "none", msg |-> ""]
\* no call of a service function on its own is under way
NoCall == [fn |-> "none"]
AdapterSites == {"download", "gemini", "payload", "ffmpeg", "postiz"}

VARIABLES
    drive,          \* ids of the files in the watched Drive folder
    workers,        \* the threads that take tasks
    analyzer_json,  \* whether the name json is bound in app.services.analyzer
    jobs,           \* the videojob table: row id -> row
    disk,           \* files present under data_dir
    pc,             \* where each slot is in run_pipeline / retry_job
    op,             \* the operation a thread runs: "none", "tick", "trigger", "retry"
    new_files,      \* run_pipeline's new_files
    idx,            \* position of the for loop in new_files
    job_id,         \* retry_job's job_id
    job,            \* the slot's VideoJob object
    ret,            \* what the step just taken returned to its caller, if it returned
    exc,            \* the exception raised for the slot's current job
    response,       \* what the analysis service answered for the current job
    srt_result,     \* process_job's srt_result
    edited_path,    \* process_job's edited_path
    scan_dl,        \* download_file calls made by create_and_download_job, per id
    postiz,         \* the publisher: the jobs whose media / post it holds, once and again
    args,           \* the arguments of a call of one of the services' functions
    result          \* what that call returned, NoCall before it

vars == <<drive, workers, analyzer_json, jobs, disk, pc, op, new_files, idx, job_id, job,
          ret, exc, response, srt_result, edited_path, scan_dl, postiz,
          args, result>>

\* ------------------------------------------------------------- the table
\* class VideoJob: a fresh object of the constructor call in create_and_download_job
\* updated_at holds the status of the set_status call that wrote it ("created"
\* for the default of a new object) and a bit that every set_status flips: two
\* calls never give the same time.  completed_at is None or "set".
VideoJob(id, d, st) ==
    [id |-> id, drive_file_id |-> d, file_name |-> file_name[d], status |-> st,
     error |-> None, local_path |-> None, output_path |-> None,
     captions_path |-> None, suggested_caption |-> None, hashtags |-> None,
     hook_text |-> None, postiz_post_id |-> None,
     updated_at |-> [at |-> "created", flip |-> FALSE], completed_at |-> None]

NoJob == [id |-> 0, drive_file_id |-> None, file_name |-> None, status |-> None,
          error |-> None, local_path |-> None, output_path |-> None,
          captions_path |-> None, suggested_caption |-> None, hashtags |-> None,
          hook_text |-> None, postiz_post_id |-> None,
          updated_at |-> [at |-> "created", flip |-> FALSE], completed_at |-> None]

Ids == 1..Len(jobs)

\* get_job_by_drive_id(...) is not None
get_job_by_drive_id(d) == {i \in Ids : jobs[i].drive_file_id = d}

\* VideoJob.set_status
set_status(obj, st, error) ==
    [obj EXCEPT !.status = st,
                !.updated_at = [at |-> st, flip |-> ~@.flip],
                !.error = IF error # None /\ error # "" THEN error ELSE @,
                !.completed_at = IF st = "done" THEN "set" ELSE @]

\* save_job on an object already in the table: the UPDATE writes the attributes
\* assigned since the object was last loaded, refresh reads the whole row back.
save_job(loaded, obj) ==
    [f \in DOMAIN obj |-> IF obj[f] # loaded[f] THEN obj[f] ELSE jobs[obj.id][f]]

\* a table without the unique index: no INSERT is refused
unique_violation_noindex(d) == FALSE

\* the unique index on drive_file_id: whether INSERT of a row for d is refused
unique_violation(d) == get_job_by_drive_id(d) # {}

\* a listing that also takes the files whose job failed
is_new_or_failed(d) == \A i \in get_job_by_drive_id(d) : jobs[i].status = "failed"

\* list_new_files, the test on one file: existing = get_job_by_drive_id(id);
\* the file is new when existing is None
is_new(d) == get_job_by_drive_id(d) = {}

\* list_new_files: the supported files of the folder that have no job, in
\* listing order
RECURSIVE list_from(_)
list_from(k) ==
    IF k > Len(DriveOrder) THEN <<>>
    ELSE LET d == DriveOrder[k] IN
         IF /\ d \in drive
            /\ suffix(file_name[d]) \in SUPPORTED_EXTENSIONS
            /\ is_new(d)
         THEN <<d>> \o list_from(k + 1)
         ELSE list_from(k + 1)
list_new_files == list_from(1)

Supported == {d \in drive : suffix(file_name[d]) \in SUPPORTED_EXTENSIONS}

Range(s) == {s[k] : k \in 1..Len(s)}

\* ------------------------------------------------------------------ Init
\* the process after startup: an empty table, idle threads
Start ==
    /\ jobs = <<>>
    /\ disk = {}
    /\ pc = [p \in Procs |-> "idle"]
    /\ op = [p \in Procs |-> "none"]
    /\ new_files = [p \in Procs |-> <<>>]
    /\ idx = [p \in Procs |-> 0]
    /\ job_id = [p \in Procs |-> 0]
    /\ job = [p \in Procs |-> NoJob]
    /\ ret = "none"
    /\ exc = [p \in Procs |-> NoExc]
    /\ response = [p \in Procs |-> "none"]
    /\ srt_result = [p \in Procs |-> None]
    /\ edited_path = [p \in Procs |-> None]
    /\ scan_dl = [d \in FileIds |-> 0]
    /\ postiz = [media |-> {}, media_again |-> {}, posts |-> {}, posts_again |-> {}]

\* analyzer.py as it is: its imports (lines 15-22) do not bind json
Init ==
    /\ drive = FileIds
    /\ workers = Procs
    /\ analyzer_json = FALSE
    /\ Start
    /\ args = NoCall /\ result = NoCall

\* ------------------------------------------------- pure pieces of the code
\* a listing whose exception is not caught
scan_begin_no_catch(fails, nf) ==
    IF fails THEN [pc |-> "idle", ret |-> "raised", new_files |-> <<>>]
    ELSE IF nf = <<>> THEN [pc |-> "idle", ret |-> "no_new", new_files |-> <<>>]
    ELSE [pc |-> "create", ret |-> "none", new_files |-> nf]

\* run_pipeline up to its loop: the listing raises (logged, return), is empty
\* (return) or is iterated
scan_begin(fails, nf) ==
    IF fails THEN [pc |-> "idle", ret |-> "discovery_error", new_files |-> <<>>]
    ELSE IF nf = <<>> THEN [pc |-> "idle", ret |-> "no_new", new_files |-> <<>>]
    ELSE [pc |-> "create", ret |-> "none", new_files |-> nf]

\* the second save without the status assignment
downloaded_job_no_status(obj, path) == [obj EXCEPT !.local_path = path]

\* create_and_download_job after download_file returned
downloaded_job(obj, path) == [obj EXCEPT !.local_path = path, !.status = "downloaded"]

\* download_file's destination: settings.downloads_dir / file_name
download_dest(name) == name

\* process_job's except clause: _update_status(job, "failed", error=str(e))
process_job_except(obj, msg) == set_status(obj, "failed", msg)

\* a guard that refuses only finished jobs
retryable_not_done(row) == row.status # "done"

\* retry_job's guard in pipeline.py, and the same test in the route
retryable(row) == row.status \in {"failed"}
route_retryable(row) == row.status \in {"failed"}

\* a test that looks at the stored path only, not at the file
needs_download_path_only(row) == row.local_path = None

\* retry_job: whether the source has to be downloaded again
needs_download(row) == row.local_path = None \/ row.local_path \notin disk

\* analyze_video: the exception it ends with, NoExc when it returns.  r is what
\* the analysis service did: "raise" (upload, processing or generation failed),
\* or answered a "wellformed" or "malformed" payload, which json.loads then reads.
analyze_video(r, empty) ==
    IF r = "raise" THEN [site |-> "gemini", msg |-> AdapterMsg("gemini", empty)]
    ELSE IF ~analyzer_json THEN [site |-> "json", msg |-> NameErrorMsg]
    ELSE IF r = "malformed" THEN [site |-> "payload", msg |-> "payload"]
    ELSE NoExc

\* a loop without its try/except: an exception ends the scan
Resume_no_catch(p, raised) ==
    IF raised \/ op[p] \notin ScanOps \/ idx[p] >= Len(new_files[p])
    THEN [pc |-> "idle", idx |-> 0, op |-> "none",
          ret |-> IF raised THEN "raised" ELSE IF op[p] \in ScanOps THEN "scanned" ELSE "True"]
    ELSE [pc |-> "create", idx |-> idx[p] + 1, ret |-> "none", op |-> op[p]]

\* Where a slot goes when the work on its current job is over: process_job
\* returned (raised = FALSE) or an exception reached the caller (raised = TRUE).
\* run_pipeline's loop catches it and moves to the next file; retry_job returns
\* True or lets the exception through.
Resume(p, raised) ==
    IF op[p] \in ScanOps
    THEN IF idx[p] < Len(new_files[p])
         THEN [pc |-> "create", idx |-> idx[p] + 1, ret |-> "none", op |-> op[p]]
         ELSE [pc |-> "idle", idx |-> 0, ret |-> "scanned", op |-> "none"]
    ELSE [pc |-> "idle", idx |-> 0, ret |-> IF raised THEN "raised" ELSE "True",
          op |-> "none"]

\* the slot's locals are dropped when its operation returns
Goto(p, r) ==
    /\ pc' = [pc EXCEPT ![p] = r.pc]
    /\ idx' = [idx EXCEPT ![p] = r.idx]
    /\ ret' = IF r.pc = "idle" THEN r.ret ELSE "none"
    /\ op' = [op EXCEPT ![p] = r.op]
    /\ new_files' = [new_files EXCEPT ![p] = IF r.pc = "idle" THEN <<>> ELSE @]
    /\ job_id' = [job_id EXCEPT ![p] = IF r.pc = "idle" THEN 0 ELSE @]
    /\ job' = [job EXCEPT ![p] = NoJob]
    /\ exc' = [exc EXCEPT ![p] = NoExc]
    /\ response' = [response EXCEPT ![p] = "none"]
    /\ srt_result' = [srt_result EXCEPT ![p] = None]
    /\ edited_path' = [edited_path EXCEPT ![p] = None]

\* the variables an action leaves alone when it only moves within an operation
Locals == <<idx, op, new_files, job_id, srt_result, edited_path>>
NoReturn == ret' = "none"
Folder == <<drive, workers, analyzer_json>>
World == <<Folder, postiz, args, result>>

\* --------------------------------------------------------------- run_pipeline
\* run_pipeline, lines 105-116: list the folder
run_pipeline(p, kind) ==
    /\ p \in workers
    /\ pc[p] = "idle"
    /\ \E fails \in BOOLEAN :
         LET out == scan_begin(fails, list_new_files) IN
         /\ pc' = [pc EXCEPT ![p] = out.pc]
         /\ ret' = out.ret
         /\ new_files' = [new_files EXCEPT ![p] = out.new_files]
         /\ op' = [op EXCEPT ![p] = IF out.pc = "idle" THEN "none" ELSE kind]
         /\ idx' = [idx EXCEPT ![p] = IF out.pc = "idle" THEN 0 ELSE 1]
    /\ UNCHANGED <<World, jobs, disk, job, exc, response, job_id, srt_result,
                   edited_path, scan_dl>>

\* main.py: scheduler.add_job(run_pipeline, "interval", max_instances=1): a tick
\* is skipped while the previous one runs
SchedulerTick ==
    \E p \in Procs :
        /\ \A q \in Procs : op[q] # "tick"
        /\ run_pipeline(p, "tick")

\* routes.py: POST /trigger queues run_pipeline as a background task
trigger_scan == \E p \in Procs : run_pipeline(p, "trigger")

\* create_and_download_job, lines 81-86: the INSERT of the new job
create_job(p) ==
    /\ pc[p] = "create"
    /\ LET d == new_files[p][idx[p]]
           obj == VideoJob(Len(jobs) + 1, d, "downloading")
       IN  IF unique_violation(d)
           THEN \* IntegrityError, caught by the loop of run_pipeline
                /\ Goto(p, Resume(p, TRUE))
                /\ jobs' = jobs
           ELSE /\ job' = [job EXCEPT ![p] = obj]
                /\ jobs' = Append(jobs, obj)
                /\ pc' = [pc EXCEPT ![p] = "download"]
                /\ NoReturn /\ UNCHANGED <<Locals, exc, response>>
    /\ UNCHANGED <<World, disk, scan_dl>>

\* create_and_download_job, lines 88-92: download_file, then the second save
download(p) ==
    /\ pc[p] = "download"
    /\ LET d == job[p].drive_file_id
           dest == download_dest(job[p].file_name)
       IN  /\ scan_dl' = [scan_dl EXCEPT ![d] = @ + 1]
           /\ \E ok \in BOOLEAN :
                IF ok
                THEN LET new == save_job(job[p], downloaded_job(job[p], dest)) IN
                     /\ disk' = disk \cup {dest}
                     /\ jobs' = [jobs EXCEPT ![new.id] = new]
                     /\ job' = [job EXCEPT ![p] = new]
                     /\ pc' = [pc EXCEPT ![p] = "p_start"]
                     /\ NoReturn /\ UNCHANGED <<Locals, exc, response>>
                ELSE \* the exception leaves create_and_download_job and is
                     \* logged by run_pipeline.  (The truncated file it may leave
                     \* at dest is not tracked: the job stays in "downloading"
                     \* and its file is never looked at again.)
                     /\ disk' = disk
                     /\ Goto(p, Resume(p, TRUE))
                     /\ jobs' = jobs
    /\ UNCHANGED World

\* ---------------------------------------------------------------- process_job
\* process_job, line 37: _update_status(job, "analyzing").  From "p_start_r" the
\* object still carries retry_job's unsaved job.error = None.
process_start(p) ==
    /\ pc[p] \in {"p_start", "p_start_r"}
    /\ LET obj == IF pc[p] = "p_start_r" THEN [job[p] EXCEPT !.error = None] ELSE job[p]
           new == save_job(job[p], set_status(obj, "analyzing", None))
       IN  /\ jobs' = [jobs EXCEPT ![new.id] = new]
           /\ job' = [job EXCEPT ![p] = new]
    /\ pc' = [pc EXCEPT ![p] = "p_analyze"]
    /\ NoReturn
    /\ UNCHANGED <<World, disk, Locals, exc, response, scan_dl>>

\* the fields process_job stores after analyze_video returned (lines 45-48)
analysis_stored(obj) ==
    [obj EXCEPT !.suggested_caption = "caption", !.hashtags = "tags", !.hook_text = "hook"]

\* process_job, lines 38-48: analyze_video; its result is saved, its exception
\* goes to the except clause
process_analyze(p) ==
    /\ pc[p] = "p_analyze"
    /\ \E r \in {"raise", "wellformed", "malformed"}, empty \in BOOLEAN :
         LET e == analyze_video(r, empty) IN
         /\ (r # "raise" => ~empty)
         /\ response' = [response EXCEPT ![p] = IF r = "raise" THEN "none" ELSE r]
         /\ exc' = [exc EXCEPT ![p] = e]
         /\ IF e = NoExc
            THEN LET new == save_job(job[p], analysis_stored(job[p])) IN
                 /\ jobs' = [jobs EXCEPT ![new.id] = new]
                 /\ job' = [job EXCEPT ![p] = new]
                 /\ pc' = [pc EXCEPT ![p] = "p_caption"]
            ELSE /\ pc' = [pc EXCEPT ![p] = "p_except"]
                 /\ UNCHANGED <<jobs, job>>
    /\ NoReturn
    /\ UNCHANGED <<World, disk, Locals, scan_dl>>

\* process_job, lines 98-100: the except clause, after which process_job returns
process_except(p) ==
    /\ pc[p] = "p_except"
    /\ LET new == save_job(job[p], process_job_except(job[p], exc[p].msg)) IN
       jobs' = [jobs EXCEPT ![new.id] = new]
    /\ Goto(p, Resume(p, FALSE))
    /\ UNCHANGED <<World, disk, scan_dl>>

\* The rest of process_job runs only once analyze_video has returned.

\* process_job, lines 50-71: the caption file.  t is the transcript of the
\* analysis: "empty" (no segment, or none that ends after the trim start),
\* "text", "blank" (segments whose text is empty after strip: a file without
\* blocks is written) or "bad" (a segment transcript_to_srt cannot read).
captions_result(name, t) ==
    IF t = "empty" THEN None ELSE srt_path_of(name)

process_captions(p) ==
    /\ pc[p] = "p_caption"
    /\ \E t \in {"empty", "text", "blank", "bad"} :
         IF t = "bad"
         THEN /\ exc' = [exc EXCEPT ![p] = [site |-> "caption", msg |-> "caption"]]
              /\ pc' = [pc EXCEPT ![p] = "p_except"]
              /\ UNCHANGED <<jobs, job, disk, srt_result>>
         ELSE LET res == captions_result(job[p].file_name, t)
                  new == save_job(job[p], [job[p] EXCEPT !.captions_path = res])
              IN  /\ disk' = IF res = None THEN disk ELSE disk \cup {res}
                  /\ srt_result' = [srt_result EXCEPT ![p] = res]
                  /\ jobs' = [jobs EXCEPT ![new.id] = new]
                  /\ job' = [job EXCEPT ![p] = new]
                  /\ pc' = [pc EXCEPT ![p] = "p_editing"]
                  /\ exc' = exc
    /\ NoReturn
    /\ UNCHANGED <<World, idx, op, new_files, job_id, edited_path, response, scan_dl>>

\* process_job, line 74: _update_status(job, "editing")
process_editing(p) ==
    /\ pc[p] = "p_editing"
    /\ LET new == save_job(job[p], set_status(job[p], "editing", None)) IN
       /\ jobs' = [jobs EXCEPT ![new.id] = new]
       /\ job' = [job EXCEPT ![p] = new]
    /\ pc' = [pc EXCEPT ![p] = "p_edit"]
    /\ NoReturn
    /\ UNCHANGED <<World, disk, Locals, exc, response, scan_dl>>

\* edit_video and _compress_video.  run is what the transcoder and the probe did:
\*   "ok"        ffmpeg exit 0, output within max_output_size_mb
\*   "fail"      ffmpeg exit # 0 or timeout (RuntimeError, TimeoutExpired)
\*   "big"       output too large, re-encode exit 0
\*   "big_probe" output too large, ffprobe fails (float("") raises)
\*   "big_time"  output too large, re-encode times out (TimeoutExpired)
\*   "big_fail"  output too large, re-encode exit # 0: not looked at
\* The result: the exception raised (NoExc if none), the path returned, and the
\* files written and removed.
edit_video(srt, name, run) ==
    LET out == output_path_of(name)
        small == compressed_path_of(name)
    IN  IF srt = None
        THEN \* line 43: srt_path.replace on None
             [exc |-> [site |-> "srt_none", msg |-> "'NoneType' object has no attribute 'replace'"],
              path |-> None, written |-> {}, removed |-> {}]
        ELSE CASE run = "ok" ->
                 [exc |-> NoExc, path |-> out, written |-> {out}, removed |-> {}]
               [] run = "fail" ->
                 [exc |-> [site |-> "ffmpeg", msg |-> "ffmpeg"], path |-> None,
                  written |-> {}, removed |-> {}]
               [] run = "big" ->
                 [exc |-> NoExc, path |-> small, written |-> {small}, removed |-> {out}]
               [] run = "big_probe" ->
                 [exc |-> [site |-> "ffmpeg", msg |-> "ffmpeg"], path |-> None,
                  written |-> {out}, removed |-> {}]
               [] run = "big_time" ->
                 [exc |-> [site |-> "ffmpeg", msg |-> "ffmpeg"], path |-> None,
                  written |-> {out}, removed |-> {}]
               [] run = "big_fail" ->
                 [exc |-> NoExc, path |-> small, written |-> {}, removed |-> {out}]

\* process_job, lines 75-83: edit_video and the save of output_path
process_edit(p) ==
    /\ pc[p] = "p_edit"
    /\ \E run \in {"ok", "fail", "big", "big_probe", "big_time", "big_fail"} :
         LET r == edit_video(srt_result[p], job[p].file_name, run) IN
         /\ disk' = (disk \cup r.written) \ r.removed
         /\ exc' = [exc EXCEPT ![p] = r.exc]
         /\ IF r.exc = NoExc
            THEN LET new == save_job(job[p], [job[p] EXCEPT !.output_path = r.path]) IN
                 /\ edited_path' = [edited_path EXCEPT ![p] = r.path]
                 /\ jobs' = [jobs EXCEPT ![new.id] = new]
                 /\ job' = [job EXCEPT ![p] = new]
                 /\ pc' = [pc EXCEPT ![p] = "p_posting"]
            ELSE /\ pc' = [pc EXCEPT ![p] = "p_except"]
                 /\ UNCHANGED <<jobs, job, edited_path>>
    /\ NoReturn
    /\ UNCHANGED <<World, idx, op, new_files, job_id, srt_result, response, scan_dl>>

\* process_job, line 87: _update_status(job, "posting")
process_posting(p) ==
    /\ pc[p] = "p_posting"
    /\ LET new == save_job(job[p], set_status(job[p], "posting", None)) IN
       /\ jobs' = [jobs EXCEPT ![new.id] = new]
       /\ job' = [job EXCEPT ![p] = new]
    /\ pc' = [pc EXCEPT ![p] = "p_post"]
    /\ NoReturn
    /\ UNCHANGED <<World, disk, Locals, exc, response, scan_dl>>

\* PostizClient.post_video: upload_media opens the file, uploads it, create_post
\* creates the post.  run: "ok", "upload" (the upload fails), "post" (the post
\* creation fails, no integration id is configured).
post_video(path, run, empty) ==
    IF path \notin disk
    THEN [site |-> "postiz", msg |-> "No such file or directory"]
    ELSE IF run = "ok" THEN NoExc
    ELSE [site |-> "postiz", msg |-> AdapterMsg(run, empty)]

\* What post_video leaves at the publisher for job id: upload_media stores the
\* file (unless opening or uploading it failed), create_post then creates the post.
published(pz, id, path, run) ==
    LET up == path \in disk /\ run \in {"ok", "post"}
        cr == path \in disk /\ run = "ok"
    IN  [media       |-> IF up THEN pz.media \cup {id} ELSE pz.media,
         media_again |-> IF up /\ id \in pz.media THEN pz.media_again \cup {id}
                         ELSE pz.media_again,
         posts       |-> IF cr THEN pz.posts \cup {id} ELSE pz.posts,
         posts_again |-> IF cr /\ id \in pz.posts THEN pz.posts_again \cup {id}
                         ELSE pz.posts_again]

\* process_job, lines 88-96: post_video, the post id, _update_status(job, "done")
process_post(p) ==
    /\ pc[p] = "p_post"
    /\ \E run \in {"ok", "upload", "post"}, empty \in BOOLEAN :
         LET e == post_video(edited_path[p], run, empty) IN
         /\ (run = "ok" => ~empty)
         /\ postiz' = published(postiz, job[p].id, edited_path[p], run)
         /\ IF e = NoExc
            THEN LET new == save_job(job[p],
                                     set_status([job[p] EXCEPT !.postiz_post_id = "post"],
                                                "done", None)) IN
                 /\ jobs' = [jobs EXCEPT ![new.id] = new]
                 /\ Goto(p, Resume(p, FALSE))
            ELSE /\ exc' = [exc EXCEPT ![p] = e]
                 /\ pc' = [pc EXCEPT ![p] = "p_except"]
                 /\ NoReturn
                 /\ UNCHANGED <<jobs, job, Locals, response>>
    /\ UNCHANGED <<Folder, args, result, disk, scan_dl>>

\* ------------------------------------------------------------------ retry_job
\* routes.py retry_job: 404, 400, or the background task is queued
route_retry_job(p, id) ==
    /\ p \in workers
    /\ pc[p] = "idle"
    /\ IF id \notin Ids
       THEN /\ ret' = "404"
            /\ UNCHANGED <<pc, op, job_id>>
       ELSE IF ~route_retryable(jobs[id])
       THEN /\ ret' = "400"
            /\ UNCHANGED <<pc, op, job_id>>
       ELSE /\ ret' = "none"
            /\ pc' = [pc EXCEPT ![p] = "r_queued"]
            /\ op' = [op EXCEPT ![p] = "retry"]
            /\ job_id' = [job_id EXCEPT ![p] = id]
    /\ UNCHANGED <<World, jobs, disk, job, exc, response, new_files, idx, srt_result,
                   edited_path, scan_dl>>

retry_request == \E p \in Procs : \E id \in 1..(Len(jobs) + 1) : route_retry_job(p, id)

\* pipeline.py retry_job, lines 128-138: load, the guard, job.error = None and,
\* with the source file missing, _update_status(job, "downloading")
retry_job(p) ==
    /\ pc[p] = "r_queued"
    /\ LET row == IF job_id[p] \in Ids THEN jobs[job_id[p]] ELSE NoJob IN
       IF row = NoJob \/ ~retryable(row)
       THEN /\ Goto(p, [pc |-> "idle", idx |-> 0, ret |-> "False", op |-> "none"])
            /\ jobs' = jobs
       ELSE IF needs_download(row)
       THEN LET new == save_job(row, set_status([row EXCEPT !.error = None],
                                                "downloading", None)) IN
            /\ jobs' = [jobs EXCEPT ![new.id] = new]
            /\ job' = [job EXCEPT ![p] = new]
            /\ pc' = [pc EXCEPT ![p] = "r_download"]
            /\ NoReturn /\ UNCHANGED <<Locals, exc, response>>
       ELSE /\ job' = [job EXCEPT ![p] = row]
            /\ pc' = [pc EXCEPT ![p] = "p_start_r"]
            /\ NoReturn /\ UNCHANGED <<jobs, Locals, exc, response>>
    /\ UNCHANGED <<World, disk, scan_dl>>

\* retry_job, lines 140-142: download_file, then _update_status(job, "downloaded");
\* an exception of download_file leaves retry_job
retry_download(p) ==
    /\ pc[p] = "r_download"
    /\ LET dest == download_dest(job[p].file_name) IN
       \E ok \in BOOLEAN :
         IF ok
         THEN LET new == save_job(job[p], set_status([job[p] EXCEPT !.local_path = dest],
                                                     "downloaded", None)) IN
              /\ disk' = disk \cup {dest}
              /\ jobs' = [jobs EXCEPT ![new.id] = new]
              /\ job' = [job EXCEPT ![p] = new]
              /\ pc' = [pc EXCEPT ![p] = "p_start"]
              /\ NoReturn /\ UNCHANGED <<Locals, exc, response>>
         ELSE /\ disk' = disk
              /\ Goto(p, Resume(p, TRUE))
              /\ jobs' = jobs
    /\ UNCHANGED <<World, scan_dl>>

\* ---------------------------------------------------------------- environment
\* a downloaded source file disappears from data_dir (the case retry_job tests
\* with Path(job.local_path).exists())
remove_local ==
    /\ \E i \in Ids :
         /\ jobs[i].status = "failed"
         /\ jobs[i].local_path \in disk
         /\ disk' = disk \ {jobs[i].local_path}
    /\ NoReturn
    /\ UNCHANGED <<World, jobs, pc, job, exc, response, Locals, scan_dl>>

\* ---------------------------------------------------------------------- Spec
Next ==
    \/ SchedulerTick
    \/ trigger_scan
    \/ \E p \in Procs : create_job(p)
    \/ \E p \in Procs : download(p)
    \/ \E p \in Procs : process_start(p)
    \/ \E p \in Procs : process_analyze(p)
    \/ \E p \in Procs : process_except(p)
    \/ retry_request
    \/ \E p \in Procs : retry_job(p)
    \/ \E p \in Procs : retry_download(p)
    \/ remove_local

Spec == Init /\ [][Next]_vars

\* The program with its operations called one after the other on one worker,
\* as it is and with the name json bound in analyzer.py, so that analyze_video
\* can return and the steps after the analysis run.
InitJson ==
    /\ drive = {"d1", "d3"}
    /\ workers = {"t1"}
    /\ analyzer_json \in BOOLEAN
    /\ Start
    /\ args = NoCall /\ result = NoCall

NextJson ==
    \/ Next
    \/ \E p \in Procs : process_captions(p)
    \/ \E p \in Procs : process_editing(p)
    \/ \E p \in Procs : process_edit(p)
    \/ \E p \in Procs : process_posting(p)
    \/ \E p \in Procs : process_post(p)

SpecJson == InitJson /\ [][NextJson]_vars

\* Two threads and one video, with json bound and the analysis service, the
\* caption writer and the transcoder doing their work: of the steps of
\* process_job only the publisher's may fail, with a message.
InitRace ==
    /\ drive = {"d1"}
    /\ workers = Procs
    /\ analyzer_json = TRUE
    /\ Start
    /\ args = NoCall /\ result = NoCall

NextRace ==
    \/ SchedulerTick
    \/ trigger_scan
    \/ \E p \in Procs : create_job(p)
    \/ \E p \in Procs : download(p)
    \/ \E p \in Procs : process_start(p)
    \/ \E p \in Procs : process_analyze(p) /\ pc'[p] = "p_caption"
    \/ \E p \in Procs : process_captions(p) /\ srt_result'[p] # None
    \/ \E p \in Procs : process_editing(p)
    \/ \E p \in Procs : process_edit(p) /\ edited_path'[p] = output_path_of(job[p].file_name)
    \/ \E p \in Procs : process_posting(p)
    \/ \E p \in Procs : process_post(p) /\ (pc'[p] = "p_except" => exc'[p].msg # "")
    \/ \E p \in Procs : process_except(p)
    \/ retry_request
    \/ \E p \in Procs : retry_job(p)

SpecRace == InitRace /\ [][NextRace]_vars

\* One thread and two videos of the same stem, a.mp4 and a.mov, under the same
\* conditions.
InitStem ==
    /\ drive = {"d1", "d2"}
    /\ workers = {"t1"}
    /\ analyzer_json = TRUE
    /\ Start
    /\ args = NoCall /\ result = NoCall

SpecStem == InitStem /\ [][NextRace]_vars

\* ------------------------------------------------- the services' functions
\* A call of a function of the services on its own: the pipeline is idle, args
\* holds the arguments, the action stores what the function returns.
Pipeline == <<Folder, postiz, jobs, disk, pc, op, new_files, idx, job_id, job, ret, exc,
              response, srt_result, edited_path, scan_dl>>
Idle == drive = {} /\ workers = {} /\ analyzer_json = TRUE /\ Start

Max(a, b) == IF a >= b THEN a ELSE b
Min(a, b) == IF a <= b THEN a ELSE b

\* analyze_video, lines 102-110.  data holds the three numbers of the payload
\* and the keys the payload does not have; seconds are whole numbers here.
DefaultDuration == 999
MinClip == 5
DefaultClipEnd == 60
\* a substitution that forgets the duration
clamp_window_fixed_end(data) ==
    LET duration == IF "raw_duration_sec" \in data.missing THEN DefaultDuration
                    ELSE data.raw_duration_sec
        trim_start == Max(0, IF "trim_start_sec" \in data.missing THEN 0
                             ELSE data.trim_start_sec)
        trim_end == Min(duration, IF "trim_end_sec" \in data.missing THEN duration
                                  ELSE data.trim_end_sec)
    IN  IF trim_end - trim_start < MinClip
        THEN [trim_start_sec |-> 0, trim_end_sec |-> DefaultClipEnd,
              raw_duration_sec |-> duration]
        ELSE [trim_start_sec |-> trim_start, trim_end_sec |-> trim_end,
              raw_duration_sec |-> duration]

clamp_window(data) ==
    LET duration == IF "raw_duration_sec" \in data.missing THEN DefaultDuration
                    ELSE data.raw_duration_sec
        trim_start == Max(0, IF "trim_start_sec" \in data.missing THEN 0
                             ELSE data.trim_start_sec)
        trim_end == Min(duration, IF "trim_end_sec" \in data.missing THEN duration
                                  ELSE data.trim_end_sec)
    IN  IF trim_end - trim_start < MinClip
        THEN [trim_start_sec |-> 0, trim_end_sec |-> Min(duration, DefaultClipEnd),
              raw_duration_sec |-> duration]
        ELSE [trim_start_sec |-> trim_start, trim_end_sec |-> trim_end,
              raw_duration_sec |-> duration]

\* the seconds tried: a stretch of MaxDelta + 1 values around 0, around the
\* default end of 60 and around 120
MaxDelta == 7
TrimSecs == {b + k : b \in {0 - 1, 54, 114}, k \in 0..MaxDelta}
InitClamp ==
    /\ Idle
    /\ args \in [raw_duration_sec : TrimSecs, trim_start_sec : TrimSecs,
                 trim_end_sec : TrimSecs,
                 missing : {{}, {"raw_duration_sec"}, {"trim_start_sec"}, {"trim_end_sec"}}]
    /\ \A k \in args.missing : args[k] = 0
    /\ result = NoCall
call_clamp_window ==
    /\ result = NoCall
    /\ result' = clamp_window(args)
    /\ UNCHANGED <<Pipeline, args>>
SpecClamp == InitClamp /\ [][call_clamp_window]_vars

\* process_job, lines 54-68: the transcript shifted by the trim start.  A segment
\* is a record of start, end (whole time units) and text.
shifted(seg, trim) ==
    [start |-> Max(0, seg.start - trim), end |-> Max(0, seg.end - trim), text |-> seg.text]

\* a loop that keeps the segments ending at the trim start
RECURSIVE adjusted_transcript_keep_zero(_, _)
adjusted_transcript_keep_zero(transcript, trim) ==
    IF transcript = <<>> THEN <<>>
    ELSE LET seg == Head(transcript)
             rest == adjusted_transcript_keep_zero(Tail(transcript), trim)
         IN  IF seg.end - trim >= 0 THEN <<shifted(seg, trim)>> \o rest ELSE rest

RECURSIVE adjusted_transcript(_, _)
adjusted_transcript(transcript, trim) ==
    IF transcript = <<>> THEN <<>>
    ELSE LET seg == Head(transcript)
             rest == adjusted_transcript(Tail(transcript), trim)
         IN  IF seg.end - trim > 0 THEN <<shifted(seg, trim)>> \o rest ELSE rest

MaxSegs == 2
MaxTime == 2
Texts == {"a", "b"}
RawSegments == [start : 0..MaxTime, end : 0..MaxTime, text : Texts]
Lists(S) == UNION {[1..n -> S] : n \in 0..MaxSegs}
InitAdjust ==
    /\ Idle
    /\ args \in [transcript : Lists(RawSegments), trim_start_sec : 0..MaxTime]
    /\ result = NoCall
call_adjusted_transcript ==
    /\ result = NoCall
    /\ result' = [adjusted |-> adjusted_transcript(args.transcript, args.trim_start_sec)]
    /\ UNCHANGED <<Pipeline, args>>
SpecAdjust == InitAdjust /\ [][call_adjusted_transcript]_vars

\* ---- caption_generator.py
\* A float of seconds is the decimal of its whole milliseconds, or (under) a
\* value just below it: the double nearest to 1.001 is 1.00099999999999989, and
\* 3.3 - 0.3 is 2.9999999999999996.
Times == {[ms |-> 0, under |-> FALSE], [ms |-> 1000, under |-> FALSE],
          [ms |-> 1001, under |-> TRUE], [ms |-> 1001, under |-> FALSE]}
Leq(a, b) == a.ms < b.ms \/ (a.ms = b.ms /\ (a.under \/ ~b.under))
Plus(a, k) == [ms |-> a.ms + k, under |-> a.under]

\* seconds_to_srt_time: int() and // cut the value down to whole milliseconds,
\* which are split into the fields of HH:MM:SS,mmm
seconds_to_srt_time(seconds) ==
    LET n == IF seconds.under THEN seconds.ms - 1 ELSE seconds.ms IN
    [h |-> n \div 3600000, m |-> (n % 3600000) \div 60000, s |-> (n % 60000) \div 1000,
     ms |-> n % 1000]

\* str.strip of a segment's text
strip(text) == IF text = "  " THEN "" ELSE text

\* transcript_to_srt, lines 27-45: the blocks of srt_content.  A segment holds
\* start, end and text; has_end tells whether it has the key "end".
DefaultLength == 2000
EndPad == 1500
RECURSIVE srt_blocks(_, _)
srt_blocks(transcript, i) ==
    IF i > Len(transcript) THEN <<>>
    ELSE LET segment == transcript[i]
             start == segment.start
             end0 == IF segment.has_end THEN segment.end ELSE Plus(start, DefaultLength)
             end == IF Leq(end0, start) THEN Plus(start, EndPad) ELSE end0
             text == strip(segment.text)
         IN  IF text = "" THEN srt_blocks(transcript, i + 1)
             ELSE <<[index |-> i, start |-> seconds_to_srt_time(start),
                     end |-> seconds_to_srt_time(end), text |-> text]>>
                  \o srt_blocks(transcript, i + 1)

\* a version that opens the output file before it looks at the list
transcript_to_srt_opens_first(transcript, file) ==
    IF transcript = <<>> THEN [ret |-> None, file |-> [exists |-> TRUE, blocks |-> <<>>]]
    ELSE [ret |-> "output_path",
          file |-> [exists |-> TRUE, blocks |-> srt_blocks(transcript, 1)]]

\* transcript_to_srt: what it returns and the file at output_path afterwards
transcript_to_srt(transcript, file) ==
    IF transcript = <<>> THEN [ret |-> None, file |-> file]
    ELSE [ret |-> "output_path",
          file |-> [exists |-> TRUE, blocks |-> srt_blocks(transcript, 1)]]

SrtTexts == {"hi", "  "}
SrtSegments ==
    {seg \in [start : Times, end : Times, text : SrtTexts, has_end : BOOLEAN] :
        ~seg.has_end => seg.end = seg.start}
\* the file at output_path before the call: none, an empty one, an older one
OldFiles == {[exists |-> FALSE, blocks |-> <<>>], [exists |-> TRUE, blocks |-> <<>>],
             [exists |-> TRUE,
              blocks |-> <<[index |-> 1, start |-> [h |-> 0, m |-> 0, s |-> 0, ms |-> 0],
                            end |-> [h |-> 0, m |-> 0, s |-> 1, ms |-> 0], text |-> "old"]>>]}
InitSrt ==
    /\ Idle
    /\ args \in [transcript : Lists(SrtSegments), file : OldFiles]
    /\ result = NoCall
call_transcript_to_srt ==
    /\ result = NoCall
    /\ result' = transcript_to_srt(args.transcript, args.file)
    /\ UNCHANGED <<Pipeline, args>>
SpecSrt == InitSrt /\ [][call_transcript_to_srt]_vars

\* The float of a decimal number of seconds with whole milliseconds.  For the
\* times of TruncatedLow, line 12's (seconds - int(seconds)) * 1000 is, in
\* double arithmetic, just below the whole number of milliseconds (3661.1 gives
\* 99.99999999990905, 1.001 gives 0.99999999999989); for the other times
\* sampled here it is that number or just above it.
MaxMs == 20
TruncatedLow == {1001, 1003, 1005, 1007, 1009, 1011, 1013, 1015, 1017, 1019, 1021, 1023, 1025, 1027, 1029, 1031, 1033, 1035, 1037, 1039, 1041, 1043, 1045, 1047, 1049, 3661100}
TimeMs == (0..MaxMs) \cup {1000 + k : k \in 0..MaxMs} \cup {3661100}
double(k) == [ms |-> k, under |-> k \in TruncatedLow]

\* the milliseconds a stamp HH:MM:SS,mmm stands for
StampMs(st) == ((st.h * 60 + st.m) * 60 + st.s) * 1000 + st.ms
\* _srt_to_seconds: float(hours) * 3600 + float(minutes) * 60 + float("SS.mmm")
_srt_to_seconds(ts) == double(StampMs(ts))

\* the stamp HH:MM:SS,mmm of k milliseconds
srt_time(k) ==
    [h |-> k \div 3600000, m |-> (k % 3600000) \div 60000, s |-> (k % 60000) \div 1000,
     ms |-> k % 1000]

\* a call of seconds_to_srt_time followed by _srt_to_seconds, or the other way
InitTime ==
    /\ Idle
    /\ args \in [fn : {"format"}, ms : TimeMs]
                 \cup [fn : {"parse"}, stamp : {srt_time(k) : k \in TimeMs}]
    /\ result = NoCall
call_format_parse ==
    /\ result = NoCall /\ args.fn = "format"
    /\ LET written == seconds_to_srt_time(double(args.ms)) IN
           result' = [stamp |-> written, parsed |-> _srt_to_seconds(written)]
    /\ UNCHANGED <<Pipeline, args>>
call_parse_format ==
    /\ result = NoCall /\ args.fn = "parse"
    /\ LET seconds == _srt_to_seconds(args.stamp) IN
           result' = [stamp |-> seconds_to_srt_time(seconds), parsed |-> seconds]
    /\ UNCHANGED <<Pipeline, args>>
SpecTime == InitTime /\ [][call_format_parse \/ call_parse_format]_vars

\* A caption file as adjust_srt_timing reads it: its lines, and whether the
\* content ends with a newline.  A line is a timestamp line of two stamps or
\* any other text.
IndexText == <<"1", "2", "3", "4">>
entry_lines(entry, i) ==
    <<[kind |-> "other", text |-> IndexText[i]],
      [kind |-> "stamp", start |-> srt_time(entry.start), end |-> srt_time(entry.end)],
      [kind |-> "other", text |-> entry.text],
      [kind |-> "other", text |-> ""]>>
RECURSIVE file_lines(_, _)
file_lines(entries, i) ==
    IF i > Len(entries) THEN <<>>
    ELSE entry_lines(entries[i], i) \o file_lines(entries, i + 1)
srt_file(entries) == [lines |-> file_lines(entries, 1), newline |-> entries # <<>>]

\* line 66, " --> " in line
has_arrow(line) == line.kind = "stamp" \/ line.text = "a --> b"
\* float("a") at line 82 raises ValueError
parses(line) == line.kind = "stamp"
\* lines 68-72 for one endpoint and an offset of whole seconds, for which the
\* float subtraction is exact
shifted_time(ts, offset_seconds) ==
    LET t == _srt_to_seconds(ts)
        moved == [ms |-> t.ms - 1000 * offset_seconds, under |-> t.under]
    IN  seconds_to_srt_time(IF moved.ms < 0 THEN [ms |-> 0, under |-> FALSE] ELSE moved)
new_line(line, offset_seconds) ==
    IF has_arrow(line)
    THEN [kind |-> "stamp", start |-> shifted_time(line.start, offset_seconds),
          end |-> shifted_time(line.end, offset_seconds)]
    ELSE line

\* adjust_srt_timing: what it returns (or raises) and the file afterwards;
\* splitlines and "\n".join drop the newline at the end of the content
adjust_srt_timing(file, offset_seconds) ==
    IF offset_seconds = 0 THEN [ret |-> "srt_path", file |-> file]
    ELSE IF \E i \in 1..Len(file.lines) : has_arrow(file.lines[i]) /\ ~parses(file.lines[i])
    THEN [ret |-> "ValueError", file |-> file]
    ELSE [ret |-> "srt_path",
          file |-> [lines |-> [i \in 1..Len(file.lines) |->
                                  new_line(file.lines[i], offset_seconds)],
                    newline |-> FALSE]]

LineMs == {0, 1000, 1001, 2500}
LineTexts == {"hi", "a --> b"}
InitShift ==
    /\ Idle
    /\ args \in [entries : Lists([start : LineMs, end : LineMs, text : LineTexts]),
                  offset_seconds : 0..MaxTime]
    /\ result = NoCall
call_adjust_srt_timing ==
    /\ result = NoCall
    /\ result' = adjust_srt_timing(srt_file(args.entries), args.offset_seconds)
    /\ UNCHANGED <<Pipeline, args>>
SpecShift == InitShift /\ [][call_adjust_srt_timing]_vars

\* ---- editor.py, lines 103-131: the size of the rendered output
\* st_size is in bytes, max_mb in megabytes, duration (what ffprobe printed, a
\* float) in quarters of a second, for which the float division is exact.
Mebibyte == 1048576
AudioKbps == 96
NoCmd == [b_v |-> 0, maxrate |-> 0, bufsize |-> 0, b_a |-> 0]

\* _compress_video, lines 117-128: the rates of the ffmpeg command, in kbps
_compress_video(max_mb, duration) ==
    LET target_bitrate == (max_mb * 8 * 1024 * 4) \div duration IN
    [b_v |-> target_bitrate, maxrate |-> target_bitrate, bufsize |-> target_bitrate * 2,
     b_a |-> AudioKbps]

\* a version that also re-encodes an output of exactly max_mb
fit_output_at_limit(st_size, max_mb, duration) ==
    IF st_size >= max_mb * Mebibyte
    THEN [reencode |-> TRUE, cmd |-> _compress_video(max_mb, duration),
          path |-> "compressed_path"]
    ELSE [reencode |-> FALSE, cmd |-> NoCmd, path |-> "output_path"]

\* edit_video, lines 103-111: the re-encode of an output over max_mb and the
\* path returned
fit_output(st_size, max_mb, duration) ==
    IF st_size > max_mb * Mebibyte
    THEN [reencode |-> TRUE, cmd |-> _compress_video(max_mb, duration),
          path |-> "compressed_path"]
    ELSE [reencode |-> FALSE, cmd |-> NoCmd, path |-> "output_path"]

MaxQuarters == 320
Budgets == {10, 95}
InitFit ==
    /\ Idle
    /\ args \in {[max_mb |-> m, st_size |-> m * Mebibyte + k, duration |-> q] :
                    m \in Budgets, k \in {0 - 1, 0, 1}, q \in 1..MaxQuarters}
    /\ result = NoCall
call_fit_output ==
    /\ result = NoCall
    /\ result' = fit_output(args.st_size, args.max_mb, args.duration)
    /\ UNCHANGED <<Pipeline, args>>
SpecFit == InitFit /\ [][call_fit_output]_vars

ProcessPcs == {"p_start", "p_start_r", "p_analyze", "p_caption", "p_editing", "p_edit",
               "p_posting", "p_post", "p_except"}

TypeOK ==
    /\ \A i \in Ids : jobs[i].id = i /\ jobs[i].status \in Statuses
    /\ \A p \in Procs : pc[p] \in ProcessPcs \cup {"idle", "create", "download",
                                                  "r_queued", "r_download"}

\* ------------------------------------------------------------------- claims
ScanOk == {"scanned", "no_new"}
OneJobEach == \A d \in Supported : Cardinality(get_job_by_drive_id(d)) = 1
\* a step in which a thread calls run_pipeline
ScanCall == \E p \in Procs, kind \in ScanOps : run_pipeline(p, kind)

\* C1: once a scan has listed the folder and returned, every supported file of
\* the folder has exactly one job, and a scan called next (same folder) finds
\* nothing new: it returns at once, leaving the table, the disk and the
\* download count as they were, whatever the status of the jobs.
C1_IdempotentIngestion ==
    [][ /\ (ret' \in ScanOk => OneJobEach')
        /\ (ret \in ScanOk /\ ScanCall =>
               /\ ret' \in {"no_new", "discovery_error"}
               /\ jobs' = jobs /\ disk' = disk /\ scan_dl' = scan_dl
               /\ pc' = pc) ]_vars

C1_Witness ==
    /\ ret = "no_new"
    /\ \E i \in Ids : jobs[i].status = "failed"
    /\ \E i \in Ids : jobs[i].status = "downloading"

\* C2: no two rows of the table have the same drive_file_id, download_file is
\* called at most once per file by the scans, and at most one scanning thread
\* holds the job of a file.
C2_UniqueSourceId ==
    \A d \in FileIds :
        /\ Cardinality(get_job_by_drive_id(d)) <= 1
        /\ scan_dl[d] <= 1
        /\ Cardinality({p \in Procs : op[p] \in ScanOps /\ job[p].drive_file_id = d}) <= 1

\* a scheduled and a triggered scan both listed d2 as new; one inserted its job,
\* the other was refused by the unique index and went on to d1
C2_Witness ==
    \E p, q \in Procs :
        /\ op[p] = "tick" /\ op[q] = "trigger"
        /\ new_files[p] = <<"d2", "d1">> /\ new_files[q] = <<"d2", "d1">>
        /\ job[p].drive_file_id = "d2" /\ pc[p] = "download"
        /\ idx[q] = 2 /\ pc[q] = "create"

\* C3: a retry of a job that does not exist or whose stored status is not
\* "failed" is refused (404 or 400 by the route, False by retry_job), and the
\* refusing step changes no row, no file and downloads nothing; a retry goes on
\* only for a job it read as "failed".
C3_RetryOnlyFailed ==
    [][ /\ (ret' \in {"404", "400", "False"} =>
               jobs' = jobs /\ disk' = disk /\ scan_dl' = scan_dl)
        /\ \A p \in Procs :
             /\ (pc[p] = "r_queued" /\ pc'[p] # "r_queued"
                 /\ ~(job_id[p] \in Ids /\ jobs[job_id[p]].status = "failed")
                 => ret' = "False" /\ pc'[p] = "idle")
             /\ (pc[p] = "idle" /\ pc'[p] = "r_queued"
                 => job_id'[p] \in Ids /\ jobs[job_id'[p]].status = "failed") ]_vars

\* retry_job found the job no longer "failed" (another retry took it) and
\* returned False
C3_Witness ==
    /\ ret = "False"
    /\ \E i \in Ids : jobs[i].status = "analyzing"

\* C4 (as claimed): an exception raised by a step of process_job (analysis, captions,
\* render, publish) is handled by its except clause: the step that leaves the
\* clause stores status "failed" and the exception's message (when it has one)
\* in the job's row and returns to the caller without raising, and a thread
\* leaves process_job only through that clause or through the final "done".
C4_ProcessJobCatches ==
    [][ \A p \in Procs :
          /\ (pc[p] = "p_except" /\ pc'[p] # "p_except" =>
                /\ jobs'[job[p].id].status = "failed"
                /\ (exc[p].msg # "" => jobs'[job[p].id].error = exc[p].msg)
                /\ ret' # "raised"
                /\ (op[p] = "retry" => ret' = "True"))
          /\ (pc[p] \in ProcessPcs /\ pc'[p] \notin ProcessPcs =>
                /\ pc[p] \in {"p_except", "p_post"}
                /\ ret' # "raised"
                /\ jobs'[job[p].id].status \in {"failed", "done"}) ]_vars

\* C5: (as claimed) when download_file raises inside a scan, the step stores
\* status "failed" and a reason in the job's row.
C5_DownloadFailureRecorded ==
    [][ \A p \in Procs :
          pc[p] = "download" /\ pc'[p] \notin {"download", "p_start"} =>
             /\ jobs'[job[p].id].status = "failed"
             /\ jobs'[job[p].id].error # None ]_vars

\* C6: (as claimed) a job that no thread is working on is "done" or "failed".
Working(i) == \E p \in Procs : job[p].id = i
C6_TerminalWhenReturned ==
    \A i \in Ids : ~Working(i) => jobs[i].status \in {"done", "failed"}

\* C7: an item of a scan that ends in an exception (INSERT refused, download
\* failed) or in a failed process_job does not end the scan: the scan goes on
\* with the next listed file, and when it returns it returns normally, has been
\* through its whole list, and every file it listed has a job.
ItemPcs == ProcessPcs \cup {"create", "download"}
C7_FailureIsolation ==
    [][ \A p \in Procs :
          op[p] \in ScanOps =>
            /\ (idx'[p] # idx[p] \/ pc'[p] \notin ItemPcs =>
                  IF idx[p] < Len(new_files[p])
                  THEN pc'[p] = "create" /\ idx'[p] = idx[p] + 1
                       /\ new_files'[p] = new_files[p] /\ op'[p] = op[p]
                  ELSE pc'[p] = "idle" /\ ret' = "scanned")
            /\ (pc'[p] = "idle" =>
                  /\ ret' = "scanned"
                  /\ idx[p] = Len(new_files[p])
                  /\ \A d \in Range(new_files[p]) :
                        \E i \in 1..Len(jobs') : jobs'[i].drive_file_id = d) ]_vars

\* a scan, alone, downloads its second file after its first one failed
C7_Witness ==
    \E p \in Procs :
        /\ op[p] \in ScanOps /\ idx[p] = 2 /\ pc[p] = "download"
        /\ \A q \in Procs \ {p} : pc[q] = "idle"
        /\ \E i \in Ids : /\ jobs[i].drive_file_id = new_files[p][1]
                          /\ jobs[i].status \in {"downloading", "failed"}

\* C8: a scan whose listing raises returns without raising and without
\* creating or changing a job, a file or a thread's position.
C8_DiscoveryError ==
    [][ ScanCall =>
          /\ ret' # "raised"
          /\ (ret' = "discovery_error" =>
                jobs' = jobs /\ disk' = disk /\ scan_dl' = scan_dl /\ pc' = pc
                /\ job' = job) ]_vars

C8_Witness ==
    /\ ret = "discovery_error"
    /\ \E i \in Ids : jobs[i].status = "downloading"
    /\ \E p \in Procs : pc[p] = "p_analyze"

\* the order of the statuses of a job that does not fail
StatusOrder == <<"pending", "downloading", "downloaded", "analyzing", "editing",
                 "posting", "done">>
Successor(a, b) == \E k \in 1..(Len(StatusOrder) - 1) : StatusOrder[k] = a /\ StatusOrder[k + 1] = b
\* A job that has not failed is the job of the scan that created it: a retry
\* takes only jobs it read as "failed".
ScanHeld(i) == \E p \in Procs : op[p] \in ScanOps /\ job[p].id = i
StepsInOrder ==
    \A i \in Ids :
        ScanHeld(i) /\ jobs'[i].status # jobs[i].status =>
            \/ jobs'[i].status = "failed"
            \/ Successor(jobs[i].status, jobs'[i].status)
Inserted == {i \in 1..Len(jobs') : i > Len(jobs)}

\* C9 (as claimed): a job is first stored as "pending", and every change of
\* the stored status of a job that has not failed goes to the immediate
\* successor in pending, downloading, downloaded, analyzing, editing, posting,
\* done, or to "failed".
C9_StatusOrderFromPending ==
    [][ /\ StepsInOrder
        /\ \A i \in Inserted : jobs'[i].status = "pending" ]_vars

\* C9 (amended): a job is first stored as "downloading" ("pending" is never
\* stored), and every change of the stored status of a job that has not failed
\* goes to the immediate successor in downloading, downloaded, analyzing,
\* editing, posting, done, or to "failed".
C9_StatusOrder ==
    [][ /\ StepsInOrder
        /\ \A i \in Inserted : jobs'[i].status = "downloading"
        /\ \A i \in Ids : jobs'[i].status # "pending" ]_vars

C9_Witness ==
    \E i \in Ids : jobs[i].status = "done" /\ jobs[i].error = None

\* C10 (as claimed): a scan's job for which no adapter failed and the analysis
\* service answered a well-formed payload leaves process_job "done" with a
\* post id.
C10_HappyPath ==
    [][ \A p \in Procs :
          /\ op[p] \in ScanOps
          /\ pc[p] \in ProcessPcs /\ pc'[p] \notin ProcessPcs
          /\ response[p] = "wellformed"
          /\ exc[p].site \notin AdapterSites
          => /\ jobs'[job[p].id].status = "done"
             /\ jobs'[job[p].id].postiz_post_id # None ]_vars

\* C11 (as claimed): a job without a caption file (srt_result is None) fails in
\* the render step only when the transcoder or the probe failed: the missing
\* caption file alone does not fail the job.
C11_NoCaptionFileIsValid ==
    \A p \in Procs :
        pc[p] = "p_except" /\ job[p].status = "editing" /\ srt_result[p] = None
        => exc[p].site \in AdapterSites

\* C13 (as claimed): no two threads hold the same job at the same time.
C13_OneInvocationPerJob ==
    \A p, q \in Procs : p # q /\ job[p].id # 0 => job[p].id # job[q].id

\* C15 (as claimed): a row whose status is "failed" has a non-empty error.
C15_FailedHasError ==
    \A i \in Ids : jobs[i].status = "failed" => jobs[i].error \notin {None, ""}

\* C16 (as claimed): when the render step has returned and the job goes on to
\* posting, the path it returned is a file that exists (a failed re-encode does
\* not pass for a render).
C16_RenderFailureSurfaced ==
    \A p \in Procs : pc[p] \in {"p_posting", "p_post"} => edited_path[p] \in disk

\* C12: an accepted retry read its job as "failed".  With the job's source file
\* on disk it writes nothing before process_job and downloads nothing: its
\* first write is "analyzing".  With the file missing it writes "downloading",
\* downloads, writes "downloaded" with the path of a file that exists, and then
\* "analyzing".  In both cases it goes on into process_job from its start.
SourcePresent(row) == row.local_path # None /\ row.local_path \in disk
C12_RetryDownloadsIffMissing ==
    [][ \A p \in Procs :
          /\ (pc[p] = "r_queued" /\ pc'[p] \notin {"r_queued", "idle"} =>
                LET row == jobs[job_id[p]] IN
                /\ row.status = "failed"
                /\ IF SourcePresent(row)
                   THEN pc'[p] = "p_start_r" /\ jobs' = jobs /\ disk' = disk
                   ELSE pc'[p] = "r_download" /\ jobs'[row.id].status = "downloading")
          /\ (pc[p] = "r_download" /\ pc'[p] \notin {"r_download", "idle"} =>
                /\ pc'[p] = "p_start"
                /\ jobs'[job[p].id].status = "downloaded"
                /\ jobs'[job[p].id].local_path \in disk')
          /\ (op[p] = "retry" /\ pc[p] \in {"p_start", "p_start_r"} /\ pc'[p] # pc[p] =>
                /\ pc'[p] = "p_analyze"
                /\ jobs'[job[p].id].status = "analyzing"
                /\ job[p].status = IF pc[p] = "p_start_r" THEN "failed" ELSE "downloaded")
      ]_vars

\* a retry that found the file missing has downloaded it again and is about to
\* start process_job
C12_Witness ==
    \E p \in Procs :
        /\ op[p] = "retry" /\ pc[p] = "p_start"
        /\ job[p].status = "downloaded" /\ job[p].local_path \in disk

\* C14 (as claimed): the publisher receives the media of a job and the post of
\* a job at most once.
C14_NoDuplicateSideEffect ==
    postiz.media_again = {} /\ postiz.posts_again = {}

\* C17: with trim_start clamped to >= 0 and trim_end clamped to the duration,
\* the window analyze_video returns is [0, min(duration, 60)] when the clamped
\* window is shorter than 5 seconds and the clamped window otherwise; for a
\* duration >= 0 it satisfies 0 <= start <= end <= duration.
C17_TrimWindow ==
    result # NoCall /\ args.missing = {} =>
        LET d == args.raw_duration_sec
            a == IF args.trim_start_sec < 0 THEN 0 ELSE args.trim_start_sec
            b == IF args.trim_end_sec > d THEN d ELSE args.trim_end_sec
        IN  /\ (b - a < 5 =>
                  /\ result.trim_start_sec = 0
                  /\ result.trim_end_sec = (IF d < 60 THEN d ELSE 60))
            /\ (b - a >= 5 => result.trim_start_sec = a /\ result.trim_end_sec = b)
            /\ (d >= 0 =>
                  /\ 0 <= result.trim_start_sec
                  /\ result.trim_start_sec <= result.trim_end_sec
                  /\ result.trim_end_sec <= d)

\* the example of the claim: 58, 60 in a source of 120 seconds gives [0, 60]
C17_Witness ==
    /\ result # NoCall
    /\ args = [raw_duration_sec |-> 120, trim_start_sec |-> 58, trim_end_sec |-> 60,
               missing |-> {}]
    /\ result.trim_start_sec = 0 /\ result.trim_end_sec = 60

\* C18: the list process_job hands to the caption writer is the list of the
\* segments whose end lies after the trim start, in their order, each with its
\* text, its end reduced by the trim start and its start reduced by the trim
\* start but not below 0: no time in it is negative.
C18_TrimOffsetAdjustment ==
    result # NoCall =>
        LET trim == args.trim_start_sec
            Kept(seg) == seg.end - trim > 0
            kept == SelectSeq(args.transcript, Kept)
            out == result.adjusted
        IN  /\ Len(out) = Len(kept)
            /\ \A k \in 1..Len(out) :
                 /\ out[k].text = kept[k].text
                 /\ out[k].end = kept[k].end - trim
                 /\ out[k].start = (IF kept[k].start - trim < 0 THEN 0
                                    ELSE kept[k].start - trim)
                 /\ out[k].start >= 0 /\ out[k].end >= 0

\* a first segment dropped (it ends at the trim start), a second kept with its
\* start clamped to 0
C18_Witness ==
    /\ result # NoCall
    /\ Len(args.transcript) = 2 /\ Len(result.adjusted) = 1
    /\ args.transcript[1].end = args.trim_start_sec
    /\ args.transcript[2].start < args.trim_start_sec
    /\ result.adjusted[1].start = 0 /\ result.adjusted[1].text = args.transcript[2].text

NonBlank(seg) == seg.text # "  "

\* C19 (as claimed): in the file transcript_to_srt writes, the block of a
\* segment with end <= start has its end 1.5 s after its start, the block of a
\* segment with end > start has the segment's end, and every block's end is
\* after its start.
C19_EndAfterStart ==
    result # NoCall /\ result.ret # None =>
        LET segs == SelectSeq(args.transcript, NonBlank)
            out == result.file.blocks
        IN  /\ Len(out) = Len(segs)
            /\ \A k \in 1..Len(out) :
                 /\ (segs[k].has_end /\ Leq(segs[k].end, segs[k].start)
                       => StampMs(out[k].end) = StampMs(out[k].start) + 1500)
                 /\ (segs[k].has_end /\ ~Leq(segs[k].end, segs[k].start)
                       => StampMs(out[k].end) = segs[k].end.ms)
                 /\ StampMs(out[k].end) > StampMs(out[k].start)

\* C20: transcript_to_srt of an empty list returns None and leaves the file at
\* the output path, present or not, as it was.
C20_EmptyTranscript ==
    result # NoCall /\ args.transcript = <<>> =>
        result.ret = None /\ result.file = args.file

\* called with an empty list where an older caption file exists
C20_Witness ==
    /\ result # NoCall /\ args.transcript = <<>>
    /\ args.file.exists /\ args.file.blocks # <<>>
    /\ result.file = args.file

\* C21 (as claimed): seconds_to_srt_time of a time of whole milliseconds is the
\* stamp of that time and _srt_to_seconds of the stamp is the time again; and
\* formatting what _srt_to_seconds makes of a stamp gives the stamp again.
C21_FormatParseInverse ==
    result # NoCall =>
        IF args.fn = "format"
        THEN result.stamp = srt_time(args.ms) /\ result.parsed = double(args.ms)
        ELSE result.stamp = args.stamp

\* C22 (as claimed): adjust_srt_timing returns the path; with offset 0 the file
\* is as it was; otherwise every timestamp line a --> b has become
\* max(0, a - offset) --> max(0, b - offset) and every other line is as it was.
C22_ShiftedAndClamped ==
    result # NoCall =>
        LET old == srt_file(args.entries)
            off == 1000 * args.offset_seconds
            moved(ts) == srt_time(Max(0, StampMs(ts) - off))
        IN  /\ result.ret = "srt_path"
            /\ args.offset_seconds = 0 => result.file = old
            /\ Len(result.file.lines) = Len(old.lines)
            /\ \A i \in 1..Len(old.lines) :
                 IF old.lines[i].kind = "stamp"
                 THEN result.file.lines[i] =
                          [kind |-> "stamp", start |-> moved(old.lines[i].start),
                           end |-> moved(old.lines[i].end)]
                 ELSE result.file.lines[i] = old.lines[i]

\* C23 (as claimed): the file transcript_to_srt writes for a non-empty list has
\* one block per segment with non-blank text, in the order of the list, with
\* the segment's trimmed text, and the blocks' index lines are 1, 2, ..., n.
C23_SequentialBlocks ==
    result # NoCall /\ result.ret # None =>
        LET segs == SelectSeq(args.transcript, NonBlank)
            out == result.file.blocks
        IN  /\ Len(out) = Len(segs)
            /\ \A k \in 1..Len(out) :
                 /\ out[k].text = strip(segs[k].text)
                 /\ out[k].start = seconds_to_srt_time(segs[k].start)
                 /\ out[k].index = k

C28_UpdatedAtBumped ==
    [][\A i \in Ids :
         jobs'[i].status # jobs[i].status =>
             /\ jobs'[i].updated_at # jobs[i].updated_at
             /\ jobs'[i].updated_at.at = jobs'[i].status]_vars

\* C26 (as claimed): a job whose stored status is not failed has no stored
\* error: the first write of a retry clears it and it stays empty until the
\* job fails again.
C26_ErrorClearedOnRetry ==
    \A i \in Ids : jobs[i].status # "failed" => jobs[i].error = None

\* C25 (as claimed): no step changes the stored row of a job whose status is
\* done, and a job's status leaves failed only in a step of a thread that runs
\* retry_job.
C25_DoneIsAbsorbing ==
    [][\A i \in Ids :
         /\ jobs[i].status = "done" => jobs'[i] = jobs[i]
         /\ jobs[i].status = "failed" /\ jobs'[i].status # "failed" =>
                \E p \in Procs : op[p] = "retry" /\ pc'[p] # pc[p]]_vars

\* C27 (as claimed): a stored job has a post id or a completion time only if its
\* status is done, and a job that is done has both.
C27_PublishedOnlyWhenDone ==
    \A i \in Ids :
        /\ jobs[i].status # "done" =>
               jobs[i].postiz_post_id = None /\ jobs[i].completed_at = None
        /\ jobs[i].status = "done" =>
               jobs[i].postiz_post_id # None /\ jobs[i].completed_at # None

Paths(row) == {row.local_path, row.captions_path, row.output_path} \ {None}
\* C29 (as claimed): two jobs never have a source, caption or output path in
\* common.
C29_ArtifactsPerJob ==
    \A i, j \in Ids : i # j => Paths(jobs[i]) \cap Paths(jobs[j]) = {}

====
